---- MODULE Spec2Model ----
(***************************************************************************)
(* Model of the orchestration pipeline of auto_subtitle/cli.py:            *)
(* main() runs get_audio over the whole batch, then get_subtitles over the *)
(* extracted audio, then (unless --srt_only) the mux loop over the result  *)
(* map.  Files on disk are the only state shared between invocations.      *)
(*                                                                         *)
(* A video path is <<directory, stem>>; a caption or audio path is         *)
(* <<directory, stem>> too (the extension tells the two maps apart).       *)
(* A Python dict is a sequence of <<key, value>> pairs in insertion order. *)
(***************************************************************************)
EXTENDS Integers, Sequences, FiniteSets, TLC

\* ------------------------------------------------------------------ bounds
MaxBatch == 2      \* longest list of videos on the command line
MaxRuns == 2       \* invocations of main() on the same disk
MaxEnv == 1        \* files removed by something else than the program
MaxPathLen == 2    \* characters in a path handed to escape_ffmpeg_path
MaxArgLen == 2     \* characters in a path handed to build_ffmpeg_command

\* ------------------------------------------------------ input universes
\* resolved video paths the command line may name: two share a stem
VideoPaths == { <<"a", "x">>, <<"b", "x">>, <<"a", "y">> }
Stems == { p[2] : p \in VideoPaths }
\* --output_dir and tempfile.gettempdir()
OutputDir == "out"
TempDir == "tmp"
SrtPaths == { <<d, s>> : d \in {OutputDir, TempDir}, s \in Stems }
\* --model (as name tokens, so that endswith(".en") is computed) and --language
ModelNames == { <<"small">>, <<"small", ".en">> }
Languages == { "auto", "fr" }
NoVideo == <<"none", "none">>
NoFile == [kind |-> "none", src |-> NoVideo, lang |-> "none"]

RECURSIVE SeqsUpTo(_)
SeqsUpTo(n) ==
    IF n = 0 THEN { <<>> }
    ELSE LET shorter == SeqsUpTo(n - 1)
         IN shorter \cup { Append(s, v) : s \in shorter, v \in VideoPaths }

\* ------------------------------------------------------------- helpers
\* Path(p).stem
stem(p) == p[2]

\* dict[k] = v : an existing key keeps its position, a new key is appended
DictSet(d, k, v) ==
    IF \E j \in DOMAIN d : d[j][1] = k
    THEN [j \in DOMAIN d |-> IF d[j][1] = k THEN <<k, v>> ELSE d[j]]
    ELSE Append(d, <<k, v>>)

Keys(d) == { d[j][1] : j \in DOMAIN d }
Lookup(d, k) == (CHOOSE j \in DOMAIN d : d[j][1] = k)
Value(d, k) == d[Lookup(d, k)][2]

\* model_name.endswith(".en")
EndsWithEn(m) == m[Len(m)] = ".en"

\* variant: the two tests of lines 181-188 in the other order, so that the
\* caller's language wins over an English-only model
TranscribeLanguage_CallerFirst(m, l) ==
    IF l # "auto" THEN l
    ELSE IF EndsWithEn(m) THEN "en"
    ELSE "unset"

\* the language entry of args handed to model.transcribe (lines 181-188);
\* "unset" when args has no language key
TranscribeLanguage(m, l) ==
    IF EndsWithEn(m) THEN "en"
    ELSE IF l # "auto" THEN l
    ELSE "unset"

\* output_path of get_audio (line 229)
WavPath(source_file) == <<TempDir, stem(source_file)>>

\* variant: the two directories are swapped
SrtDir_Swapped(flag) == IF flag THEN TempDir ELSE OutputDir

\* srt_path of get_subtitles (lines 249-250); main passes
\* output_srt or srt_only as the flag (line 198)
SrtDir(flag) == IF flag THEN OutputDir ELSE TempDir
SrtPath(path, flag) == <<SrtDir(flag), stem(path)>>

VARIABLES
    video_pathes,     \* good_video_pathes: the resolved command-line list
    srt_only,         \* --srt_only
    output_srt,       \* --output_srt
    model_name,       \* --model
    language,         \* --language
    pc,               \* "get_audio" | "get_subtitles" | "mux" | "done" | "aborted"
    i,                \* position of the running loop in the sequence it iterates
    audio_paths,      \* dict of get_audio
    subtitles_path,   \* dict of get_subtitles
    videoOnDisk,      \* the video files that exist
    wav,              \* temp-dir .wav files: stem -> video the audio came from
    srt,              \* caption files: path -> content (NoFile when absent)
    state,            \* per-input stage reached in this run
    failure,          \* per-input stage that failed in this run ("none" if none)
    extractCalls,     \* media-tool extraction invocations per input, this run
    transcribeCalls,  \* recognition invocations per input, this run
    muxChecks,        \* existence checks per input, this run
    muxCalls,         \* mux command invocations per input, this run
    diag,             \* inputs for which "Missing srt or source file" was printed
    reported,         \* inputs for which "An error occurred" was printed
    run,              \* number of the current invocation of main()
    prevOutcome,      \* how the previous invocation ended ("none" in the first)
    srtAtStart,       \* caption files as they were when this invocation began
    envCount,         \* files removed from outside so far
    filters,          \* warnings.filters of the process, first match first
    fpc,              \* where a call of one of the two string functions stands
    os_name,          \* os.name of the host
    esc_path,         \* argument of escape_ffmpeg_path, a sequence of characters
    esc_result,       \* what escape_ffmpeg_path did: raised, or the token
    cmd_paths,        \* the three arguments of build_ffmpeg_command
    command,          \* what build_ffmpeg_command returned
    argv              \* the words the shell of subprocess.run made of it

vars == << video_pathes, srt_only, output_srt, model_name, language, pc, i,
           audio_paths, subtitles_path, videoOnDisk, wav, srt, state, failure,
           extractCalls, transcribeCalls, muxChecks, muxCalls, diag, reported,
           run, prevOutcome, srtAtStart, envCount, filters,
           fpc, os_name, esc_path, esc_result, cmd_paths, command, argv >>

args == << video_pathes, srt_only, output_srt >>
counters == << extractCalls, transcribeCalls, muxChecks, muxCalls >>
history == << run, prevOutcome, srtAtStart, envCount >>
functionVars == << fpc, os_name, esc_path, esc_result, cmd_paths, command, argv >>
pipelineVars == << video_pathes, srt_only, output_srt, model_name, language, pc, i,
                   audio_paths, subtitles_path, videoOnDisk, wav, srt, state,
                   failure, extractCalls, transcribeCalls, muxChecks, muxCalls,
                   diag, reported, run, prevOutcome, srtAtStart, envCount,
                   filters >>

Zero == [p \in VideoPaths |-> 0]
AllPending == [p \in VideoPaths |-> "Pending"]
NoFailure == [p \in VideoPaths |-> "none"]
\* variant: the cache check also compares the options the file was made with
Exists_OptionAware(t) ==
    /\ srt[t].kind # "none"
    /\ srt[t].lang = TranscribeLanguage(model_name, language)


Exists(t) == srt[t].kind # "none"

\* warnings.filters: each entry is <<action, who added it>>; every entry of
\* the model matches every warning, so the first entry decides
StartupActions == { "default", "error" }
Ignore == <<"ignore", "cli">>
Default == <<"default", "cli">>

\* warnings.filterwarnings(action): the entry is put in front, an equal
\* entry further down is dropped
filterwarnings(fs, item) ==
    <<item>> \o SelectSeq(fs, LAMBDA x : x # item)

\* the behaviour in force, and the one the interpreter started with
InForce == filters[1][1]
AtStartup == filters[Len(filters)][1]

NoResult == [raised |-> FALSE, token |-> <<>>]
NoWords == [ok |-> TRUE, words |-> <<>>]

\* neither string function is being looked at
FunctionsIdle ==
    /\ fpc = "idle"
    /\ os_name = "posix"
    /\ esc_path = <<>>
    /\ esc_result = NoResult
    /\ cmd_paths = << <<>>, <<>>, <<>> >>
    /\ command = <<>>
    /\ argv = NoWords

\* the state main() starts in, but for the warning filters
Start ==
    /\ FunctionsIdle
    /\ video_pathes \in SeqsUpTo(MaxBatch) \ { <<>> }
    /\ srt_only \in BOOLEAN
    /\ output_srt \in BOOLEAN
    /\ model_name \in ModelNames
    /\ language \in Languages
    /\ pc = "get_audio"
    /\ i = 1
    /\ audio_paths = <<>>
    /\ subtitles_path = <<>>
    /\ videoOnDisk = VideoPaths
    /\ wav = [s \in Stems |-> NoVideo]
    /\ srt = [t \in SrtPaths |-> NoFile]
    /\ state = AllPending
    /\ failure = NoFailure
    /\ extractCalls = Zero
    /\ transcribeCalls = Zero
    /\ muxChecks = Zero
    /\ muxCalls = Zero
    /\ diag = {}
    /\ reported = {}
    /\ run = 1
    /\ prevOutcome = "none"
    /\ srtAtStart = srt
    /\ envCount = 0

\* the interpreter started with its usual filters
Init ==
    /\ Start
    /\ filters = << <<"default", "startup">> >>

\* the interpreter started with any filters (-W, PYTHONWARNINGS)
InitWarnings ==
    /\ Start
    /\ \E a \in StartupActions : filters = << <<a, "startup">> >>

\* variant: "return audio_paths" indented into the loop, so that get_audio
\* returns after the first input
GetAudioOk_ReturnsInLoop ==
    /\ pc = "get_audio"
    /\ LET source_file == video_pathes[i]
           output_path == WavPath(source_file)
       IN /\ source_file \in videoOnDisk
          /\ wav' = [wav EXCEPT ![stem(source_file)] = source_file]
          /\ audio_paths' = DictSet(audio_paths, source_file, output_path)
          /\ extractCalls' = [extractCalls EXCEPT ![source_file] = @ + 1]
          /\ state' = [state EXCEPT ![source_file] = "AudioExtracted"]
    /\ i' = 1 /\ pc' = "get_subtitles"
    /\ UNCHANGED failure
    /\ UNCHANGED filters
    /\ UNCHANGED functionVars
    /\ UNCHANGED << args, model_name, language, subtitles_path, videoOnDisk, srt,
                    transcribeCalls, muxChecks, muxCalls, diag, reported, history >>

\* variant: the extraction is skipped for an input whose caption file exists
GetAudioOk_SkipsCached ==
    /\ pc = "get_audio"
    /\ LET source_file == video_pathes[i]
           output_path == WavPath(source_file)
           cached == Exists(SrtPath(source_file, output_srt \/ srt_only))
       IN /\ source_file \in videoOnDisk
          /\ wav' = IF cached THEN wav
                    ELSE [wav EXCEPT ![stem(source_file)] = source_file]
          /\ audio_paths' = DictSet(audio_paths, source_file, output_path)
          /\ extractCalls' = IF cached THEN extractCalls
                             ELSE [extractCalls EXCEPT ![source_file] = @ + 1]
          /\ state' = [state EXCEPT ![source_file] = "AudioExtracted"]
    /\ IF i < Len(video_pathes)
       THEN i' = i + 1 /\ pc' = pc
       ELSE i' = 1 /\ pc' = "get_subtitles"
    /\ UNCHANGED failure
    /\ UNCHANGED filters
    /\ UNCHANGED functionVars
    /\ UNCHANGED << args, model_name, language, subtitles_path, videoOnDisk, srt,
                    transcribeCalls, muxChecks, muxCalls, diag, reported, history >>

\* ------------------------------------------------- get_audio (lines 222-237)
\* one iteration of the loop of get_audio, the media tool succeeding:
\* the .wav of that stem is (over)written and the dict entry set;
\* after the last iteration main goes on to get_subtitles
GetAudioOk ==
    /\ pc = "get_audio"
    /\ LET source_file == video_pathes[i]
           output_path == WavPath(source_file)
       IN /\ source_file \in videoOnDisk
          /\ wav' = [wav EXCEPT ![stem(source_file)] = source_file]
          /\ audio_paths' = DictSet(audio_paths, source_file, output_path)
          /\ extractCalls' = [extractCalls EXCEPT ![source_file] = @ + 1]
          /\ state' = [state EXCEPT ![source_file] = "AudioExtracted"]
    /\ IF i < Len(video_pathes)
       THEN i' = i + 1 /\ pc' = pc
       ELSE i' = 1 /\ pc' = "get_subtitles"
    /\ UNCHANGED failure
    /\ UNCHANGED filters
    /\ UNCHANGED functionVars
    /\ UNCHANGED << args, model_name, language, subtitles_path, videoOnDisk, srt,
                    transcribeCalls, muxChecks, muxCalls, diag, reported, history >>

\* variant: the failure is caught and the loop goes on, but the dict entry
\* of the failed input is set all the same
GetAudioFail_Continues ==
    /\ pc = "get_audio"
    /\ LET source_file == video_pathes[i]
       IN /\ extractCalls' = [extractCalls EXCEPT ![source_file] = @ + 1]
          /\ state' = [state EXCEPT ![source_file] = "Failed"]
          /\ failure' = [failure EXCEPT ![source_file] = "extract"]
          /\ audio_paths' = DictSet(audio_paths, source_file, WavPath(source_file))
    /\ IF i < Len(video_pathes)
       THEN i' = i + 1 /\ pc' = pc
       ELSE i' = 1 /\ pc' = "get_subtitles"
    /\ UNCHANGED filters
    /\ UNCHANGED functionVars
    /\ UNCHANGED << args, model_name, language, subtitles_path,
                    videoOnDisk, wav, srt, transcribeCalls, muxChecks, muxCalls,
                    diag, reported, history >>

\* the media tool exits non-zero (always so when the video is missing):
\* .run() raises ffmpeg.Error, nothing catches it, main() ends
GetAudioFail ==
    /\ pc = "get_audio"
    /\ LET source_file == video_pathes[i]
       IN /\ extractCalls' = [extractCalls EXCEPT ![source_file] = @ + 1]
          /\ state' = [state EXCEPT ![source_file] = "Failed"]
          /\ failure' = [failure EXCEPT ![source_file] = "extract"]
    /\ pc' = "aborted"
    /\ UNCHANGED filters
    /\ UNCHANGED functionVars
    /\ UNCHANGED << args, model_name, language, i, audio_paths, subtitles_path,
                    videoOnDisk, wav, srt, transcribeCalls, muxChecks, muxCalls,
                    diag, reported, history >>

\* variant: the early return of line 203-204 is missing
AfterSubtitles_NoSrtOnlyReturn ==
    IF i < Len(audio_paths)
    THEN i' = i + 1 /\ pc' = pc
    ELSE i' = 1 /\ pc' = "mux"

\* --------------------------------------------- get_subtitles (lines 240-269)
\* what main does after the last iteration of get_subtitles (lines 203-206)
AfterSubtitles ==
    IF i < Len(audio_paths)
    THEN i' = i + 1 /\ pc' = pc
    ELSE i' = 1 /\ pc' = IF srt_only THEN "done" ELSE "mux"

\* variant: the "continue" of line 256 is missing, so that an existing
\* caption file is transcribed and written again
CacheHit_Retranscribes ==
    /\ pc = "get_subtitles"
    /\ LET path == audio_paths[i][1]
           audio_path == audio_paths[i][2]
           srt_path == SrtPath(path, output_srt \/ srt_only)
       IN /\ Exists(srt_path)
          /\ transcribeCalls' = [transcribeCalls EXCEPT ![path] = @ + 1]
          /\ srt' = [srt EXCEPT ![srt_path] =
                       [kind |-> "full", src |-> wav[audio_path[2]],
                        lang |-> TranscribeLanguage(model_name, language)]]
          /\ subtitles_path' = DictSet(subtitles_path, path, srt_path)
          /\ state' = [state EXCEPT ![path] = "CaptionWritten"]
    /\ AfterSubtitles
    /\ UNCHANGED failure
    /\ filters' = filterwarnings(filterwarnings(filters, Ignore), Default)
    /\ UNCHANGED functionVars
    /\ UNCHANGED << args, model_name, language, audio_paths, videoOnDisk, wav,
                    extractCalls, muxChecks, muxCalls, diag, reported, history >>

\* the caption file exists: "Skipping...", the entry is set, no recognition
CacheHit ==
    /\ pc = "get_subtitles"
    /\ LET path == audio_paths[i][1]
           srt_path == SrtPath(path, output_srt \/ srt_only)
       IN /\ Exists(srt_path)
          /\ subtitles_path' = DictSet(subtitles_path, path, srt_path)
          /\ state' = [state EXCEPT ![path] = "CaptionWritten"]
    /\ AfterSubtitles
    /\ UNCHANGED failure
    /\ UNCHANGED filters
    /\ UNCHANGED functionVars
    /\ UNCHANGED << args, model_name, language, audio_paths, videoOnDisk, wav, srt,
                    counters, diag, reported, history >>

\* what the recognition call and write_srt put in the file: the captions of
\* the audio found at audio_path, in the language of args
Transcript(audio_path) ==
    [kind |-> "full", src |-> wav[audio_path[2]],
     lang |-> TranscribeLanguage(model_name, language)]

\* no caption file: the recognition call returns and the file is written
TranscribeOk ==
    /\ pc = "get_subtitles"
    /\ LET path == audio_paths[i][1]
           audio_path == audio_paths[i][2]
           srt_path == SrtPath(path, output_srt \/ srt_only)
       IN /\ ~Exists(srt_path)
          /\ transcribeCalls' = [transcribeCalls EXCEPT ![path] = @ + 1]
          /\ srt' = [srt EXCEPT ![srt_path] = Transcript(audio_path)]
          /\ subtitles_path' = DictSet(subtitles_path, path, srt_path)
          /\ state' = [state EXCEPT ![path] = "CaptionWritten"]
    /\ AfterSubtitles
    /\ UNCHANGED failure
    /\ filters' = filterwarnings(filterwarnings(filters, Ignore), Default)
    /\ UNCHANGED functionVars
    /\ UNCHANGED << args, model_name, language, audio_paths, videoOnDisk, wav,
                    extractCalls, muxChecks, muxCalls, diag, reported, history >>

\* variant: the entry is set before the recognition call instead of after
\* the write
TranscribeFail_RecordsEntry ==
    /\ pc = "get_subtitles"
    /\ LET path == audio_paths[i][1]
           srt_path == SrtPath(path, output_srt \/ srt_only)
       IN /\ ~Exists(srt_path)
          /\ subtitles_path' = DictSet(subtitles_path, path, srt_path)
          /\ transcribeCalls' = [transcribeCalls EXCEPT ![path] = @ + 1]
          /\ state' = [state EXCEPT ![path] = "Failed"]
          /\ failure' = [failure EXCEPT ![path] = "transcribe"]
    /\ pc' = "aborted"
    /\ filters' = filterwarnings(filters, Ignore)
    /\ UNCHANGED functionVars
    /\ UNCHANGED << args, model_name, language, i, audio_paths,
                    videoOnDisk, wav, srt, extractCalls, muxChecks, muxCalls,
                    diag, reported, history >>

\* no caption file: the recognition call raises, nothing catches it
TranscribeFail ==
    /\ pc = "get_subtitles"
    /\ LET path == audio_paths[i][1]
           srt_path == SrtPath(path, output_srt \/ srt_only)
       IN /\ ~Exists(srt_path)
          /\ transcribeCalls' = [transcribeCalls EXCEPT ![path] = @ + 1]
          /\ state' = [state EXCEPT ![path] = "Failed"]
          /\ failure' = [failure EXCEPT ![path] = "transcribe"]
    /\ pc' = "aborted"
    /\ filters' = filterwarnings(filters, Ignore)
    /\ UNCHANGED functionVars
    /\ UNCHANGED << args, model_name, language, i, audio_paths, subtitles_path,
                    videoOnDisk, wav, srt, extractCalls, muxChecks, muxCalls,
                    diag, reported, history >>

\* no caption file: the recognition call returns, open(srt_path, "w") creates
\* the file and write_srt raises part-way (or open itself raises: no file)
WriteFail ==
    /\ pc = "get_subtitles"
    /\ LET path == audio_paths[i][1]
           audio_path == audio_paths[i][2]
           srt_path == SrtPath(path, output_srt \/ srt_only)
       IN /\ ~Exists(srt_path)
          /\ transcribeCalls' = [transcribeCalls EXCEPT ![path] = @ + 1]
          /\ \E opened \in BOOLEAN :
                srt' = IF opened
                       THEN [srt EXCEPT ![srt_path] =
                               [Transcript(audio_path) EXCEPT !.kind = "partial"]]
                       ELSE srt
          /\ state' = [state EXCEPT ![path] = "Failed"]
          /\ failure' = [failure EXCEPT ![path] = "write"]
    /\ pc' = "aborted"
    /\ filters' = filterwarnings(filterwarnings(filters, Ignore), Default)
    /\ UNCHANGED functionVars
    /\ UNCHANGED << args, model_name, language, i, audio_paths, subtitles_path,
                    videoOnDisk, wav, extractCalls, muxChecks, muxCalls,
                    diag, reported, history >>

\* ------------------------------------------ the mux loop (lines 206-215)
AfterMux ==
    IF i < Len(subtitles_path)
    THEN i' = i + 1 /\ pc' = pc
    ELSE i' = 1 /\ pc' = "done"

\* variant: "or" in place of "and" in the check of line 210
BothExist_Or(path, srt_path) == Exists(srt_path) \/ path \in videoOnDisk

\* line 210: os.path.exists(srt_path) and os.path.exists(path)
BothExist(path, srt_path) == Exists(srt_path) /\ path \in videoOnDisk

\* the check fails: the message is printed and the loop continues
MuxMissing ==
    /\ pc = "mux"
    /\ LET path == subtitles_path[i][1]
           srt_path == subtitles_path[i][2]
       IN /\ ~BothExist(path, srt_path)
          /\ muxChecks' = [muxChecks EXCEPT ![path] = @ + 1]
          /\ diag' = diag \cup {path}
          /\ state' = [state EXCEPT ![path] = "Failed"]
          /\ failure' = [failure EXCEPT ![path] = "check"]
    /\ AfterMux
    /\ UNCHANGED filters
    /\ UNCHANGED functionVars
    /\ UNCHANGED << args, model_name, language, audio_paths, subtitles_path,
                    videoOnDisk, wav, srt, extractCalls, transcribeCalls, muxCalls,
                    reported, history >>

\* the check passes and the command exits with 0
MuxOk ==
    /\ pc = "mux"
    /\ LET path == subtitles_path[i][1]
           srt_path == subtitles_path[i][2]
       IN /\ BothExist(path, srt_path)
          /\ muxChecks' = [muxChecks EXCEPT ![path] = @ + 1]
          /\ muxCalls' = [muxCalls EXCEPT ![path] = @ + 1]
          /\ state' = [state EXCEPT ![path] = "Muxed"]
    /\ AfterMux
    /\ UNCHANGED failure
    /\ UNCHANGED filters
    /\ UNCHANGED functionVars
    /\ UNCHANGED << args, model_name, language, audio_paths, subtitles_path,
                    videoOnDisk, wav, srt, extractCalls, transcribeCalls,
                    diag, reported, history >>

\* variant: execute_ffmpeg_command without its try/except: check=True
\* raises CalledProcessError out of the loop
MuxFail_Raises ==
    /\ pc = "mux"
    /\ LET path == subtitles_path[i][1]
           srt_path == subtitles_path[i][2]
       IN /\ BothExist(path, srt_path)
          /\ muxChecks' = [muxChecks EXCEPT ![path] = @ + 1]
          /\ muxCalls' = [muxCalls EXCEPT ![path] = @ + 1]
          /\ reported' = reported \cup {path}
          /\ state' = [state EXCEPT ![path] = "Failed"]
          /\ failure' = [failure EXCEPT ![path] = "mux"]
    /\ pc' = "aborted"
    /\ UNCHANGED filters
    /\ UNCHANGED functionVars
    /\ UNCHANGED << args, model_name, language, i, audio_paths, subtitles_path,
                    videoOnDisk, wav, srt, extractCalls, transcribeCalls,
                    diag, history >>

\* the check passes and the command exits non-zero: execute_ffmpeg_command
\* (lines 272-279) catches CalledProcessError and prints it
MuxFail ==
    /\ pc = "mux"
    /\ LET path == subtitles_path[i][1]
           srt_path == subtitles_path[i][2]
       IN /\ BothExist(path, srt_path)
          /\ muxChecks' = [muxChecks EXCEPT ![path] = @ + 1]
          /\ muxCalls' = [muxCalls EXCEPT ![path] = @ + 1]
          /\ reported' = reported \cup {path}
          /\ state' = [state EXCEPT ![path] = "Failed"]
          /\ failure' = [failure EXCEPT ![path] = "mux"]
    /\ AfterMux
    /\ UNCHANGED filters
    /\ UNCHANGED functionVars
    /\ UNCHANGED << args, model_name, language, audio_paths, subtitles_path,
                    videoOnDisk, wav, srt, extractCalls, transcribeCalls,
                    diag, history >>

\* ------------------------------------------------------- the environment
\* main() is invoked again on the same disk with the same command line,
\* except possibly for --language
Rerun ==
    /\ pc \in {"done", "aborted"}
    /\ run < MaxRuns
    /\ run' = run + 1
    /\ prevOutcome' = pc
    /\ srtAtStart' = srt
    /\ language' \in Languages
    /\ pc' = "get_audio"
    /\ i' = 1
    /\ audio_paths' = <<>>
    /\ subtitles_path' = <<>>
    /\ state' = AllPending
    /\ failure' = NoFailure
    /\ extractCalls' = Zero
    /\ transcribeCalls' = Zero
    /\ muxChecks' = Zero
    /\ muxCalls' = Zero
    /\ diag' = {}
    /\ reported' = {}
    /\ filters' = << filters[Len(filters)] >>
    /\ UNCHANGED functionVars
    /\ UNCHANGED << args, model_name, videoOnDisk, wav, srt, envCount >>

\* the files this command line makes the program look at
Batch == { video_pathes[j] : j \in DOMAIN video_pathes }
Targets == { SrtPath(p, output_srt \/ srt_only) : p \in Batch }

\* Something else removes a file.  A removal only shows when the program next
\* looks for the file, so it is taken right before the step that does:
\* get_audio reads the video, get_subtitles tests the caption file, the mux
\* loop tests both.
NextVideo ==
    IF pc = "get_audio" THEN { video_pathes[i] }
    ELSE IF pc = "mux" THEN { subtitles_path[i][1] }
    ELSE {}
NextSrt ==
    IF pc = "get_subtitles"
    THEN { SrtPath(audio_paths[i][1], output_srt \/ srt_only) }
    ELSE IF pc = "mux" THEN { subtitles_path[i][2] }
    ELSE {}

\* the video the next step reads is removed
RemoveVideo ==
    /\ envCount < MaxEnv
    /\ \E v \in videoOnDisk \cap NextVideo : videoOnDisk' = videoOnDisk \ {v}
    /\ envCount' = envCount + 1
    /\ UNCHANGED failure
    /\ UNCHANGED filters
    /\ UNCHANGED functionVars
    /\ UNCHANGED << args, model_name, language, pc, i, audio_paths, subtitles_path,
                    wav, srt, state, counters, diag, reported,
                    run, prevOutcome, srtAtStart >>

\* the caption file the next step tests is removed
RemoveSrt ==
    /\ envCount < MaxEnv
    /\ \E t \in NextSrt : Exists(t) /\ srt' = [srt EXCEPT ![t] = NoFile]
    /\ envCount' = envCount + 1
    /\ UNCHANGED failure
    /\ UNCHANGED filters
    /\ UNCHANGED functionVars
    /\ UNCHANGED << args, model_name, language, pc, i, audio_paths, subtitles_path,
                    videoOnDisk, wav, state, counters, diag, reported,
                    run, prevOutcome, srtAtStart >>

Next ==
    \/ GetAudioOk
    \/ GetAudioFail
    \/ CacheHit
    \/ TranscribeOk
    \/ TranscribeFail
    \/ WriteFail
    \/ MuxMissing
    \/ MuxOk
    \/ MuxFail
    \/ Rerun
    \/ RemoveVideo
    \/ RemoveSrt

Spec == Init /\ [][Next]_vars
SpecWarnings == InitWarnings /\ [][Next]_vars

TypeOK ==
    /\ pc \in {"get_audio", "get_subtitles", "mux", "done", "aborted"}
    /\ Len(video_pathes) \in 1..MaxBatch
    /\ Keys(subtitles_path) \subseteq Keys(audio_paths)

\* ------------------------------------------------- escape_ffmpeg_path
\* A string is a sequence of one-character strings.  The characters a path
\* is drawn from: every character one of the two layers escapes, the
\* forward slash, a space and a plain letter.
PathChars == { ":", "\\", "'", ",", "[", "]", ";", "/", " ", "C" }
OsNames == { "nt", "posix" }

RECURSIVE Strings(_, _)
Strings(A, n) ==
    IF n = 0 THEN { <<>> }
    ELSE Strings(A, n - 1) \cup
         { Append(s, c) : s \in { x \in Strings(A, n - 1) : Len(x) = n - 1 },
                          c \in A }

\* the classes of the two re.sub patterns, [:'\\] and [,\[\];'\\]
Level1Chars == { ":", "'", "\\" }
Level2Chars == { ",", "[", "]", ";", "'", "\\" }

\* path.replace('\\', '/')
NormaliseSeparators(s) ==
    [j \in DOMAIN s |-> IF s[j] = "\\" THEN "/" ELSE s[j]]

\* re.sub(r"([class])", r"\\\1", s): a backslash before each character of
\* the class
RECURSIVE re_sub(_, _)
re_sub(class, s) ==
    IF s = <<>> THEN <<>>
    ELSE (IF Head(s) \in class THEN <<"\\", Head(s)>> ELSE <<Head(s)>>)
         \o re_sub(class, Tail(s))

\* f"'{s}'"
Quoted(s) == <<"'">> \o s \o <<"'">>

\* escape_ffmpeg_path(path) on a host whose os.name is os
escape_ffmpeg_path(os, s) ==
    IF os # "nt"
    THEN [raised |-> TRUE, token |-> <<>>]
    ELSE [raised |-> FALSE,
          token |-> Quoted(re_sub(Level2Chars,
                        Quoted(re_sub(Level1Chars,
                            NormaliseSeparators(s)))))]

\* a caller is about to escape some path on some host
InitEscape ==
    /\ video_pathes = <<>>
    /\ srt_only = FALSE
    /\ output_srt = FALSE
    /\ model_name = <<"small">>
    /\ language = "auto"
    /\ pc = "idle"
    /\ i = 1
    /\ audio_paths = <<>>
    /\ subtitles_path = <<>>
    /\ videoOnDisk = VideoPaths
    /\ wav = [s \in Stems |-> NoVideo]
    /\ srt = [t \in SrtPaths |-> NoFile]
    /\ state = AllPending
    /\ failure = NoFailure
    /\ extractCalls = Zero
    /\ transcribeCalls = Zero
    /\ muxChecks = Zero
    /\ muxCalls = Zero
    /\ diag = {}
    /\ reported = {}
    /\ run = 1
    /\ prevOutcome = "none"
    /\ srtAtStart = srt
    /\ envCount = 0
    /\ filters = << <<"default", "startup">> >>
    /\ fpc = "escape"
    /\ os_name \in OsNames
    /\ esc_path \in Strings(PathChars, MaxPathLen)
    /\ esc_result = NoResult
    /\ cmd_paths = << <<>>, <<>>, <<>> >>
    /\ command = <<>>
    /\ argv = NoWords

\* the call returns a token
EscapeReturns ==
    /\ fpc = "escape"
    /\ ~escape_ffmpeg_path(os_name, esc_path).raised
    /\ esc_result' = escape_ffmpeg_path(os_name, esc_path)
    /\ fpc' = "escaped"
    /\ UNCHANGED << os_name, esc_path, cmd_paths, command, argv >>
    /\ UNCHANGED pipelineVars

\* the call raises NotImplementedError
EscapeRaises ==
    /\ fpc = "escape"
    /\ escape_ffmpeg_path(os_name, esc_path).raised
    /\ esc_result' = escape_ffmpeg_path(os_name, esc_path)
    /\ fpc' = "escaped"
    /\ UNCHANGED << os_name, esc_path, cmd_paths, command, argv >>
    /\ UNCHANGED pipelineVars

NextEscape ==
    \/ EscapeReturns
    \/ EscapeRaises

SpecEscape == InitEscape /\ [][NextEscape]_vars

\* ------------------------- build_ffmpeg_command, execute_ffmpeg_command
\* The characters a path of the mux command is drawn from; the fixed words
\* of the command ("ffmpeg", "-i", ...) are one symbol each.
ArgChars == { "v", " ", "\"" }
ArgPaths == Strings(ArgChars, MaxArgLen) \ { <<>> }

\* f"\"{s}\""
DoubleQuoted(s) == <<"\"">> \o s \o <<"\"">>

\* the f-string build_ffmpeg_command returns
build_ffmpeg_command(video_path, subtitle_path, output_path) ==
    << "ffmpeg", " ", "-i", " " >> \o DoubleQuoted(video_path) \o
    << " ", "-i", " " >> \o DoubleQuoted(subtitle_path) \o
    << " ", "-c:v", " ", "copy", " ", "-c:a", " ", "copy", " ",
       "-c:s", " ", "mov_text", " ", "-y", " " >> \o DoubleQuoted(output_path)

\* What the shell of subprocess.run(command, shell=True) makes of the
\* string: words are separated by spaces outside double quotes, the quotes
\* are taken off, and a quote left open is a syntax error.
RECURSIVE ShellWords(_, _, _, _, _)
ShellWords(s, inQuote, word, started, words) ==
    IF s = <<>>
    THEN IF inQuote THEN [ok |-> FALSE, words |-> <<>>]
         ELSE [ok |-> TRUE,
               words |-> IF started THEN Append(words, word) ELSE words]
    ELSE IF Head(s) = "\""
         THEN ShellWords(Tail(s), ~inQuote, word, TRUE, words)
         ELSE IF Head(s) = " " /\ ~inQuote
              THEN ShellWords(Tail(s), FALSE, <<>>, FALSE,
                              IF started THEN Append(words, word) ELSE words)
              ELSE ShellWords(Tail(s), inQuote, Append(word, Head(s)), TRUE,
                              words)

shell(s) == ShellWords(s, FALSE, <<>>, FALSE, <<>>)

\* a caller is about to build the mux command for some three paths
InitCommand ==
    /\ video_pathes = <<>>
    /\ srt_only = FALSE
    /\ output_srt = FALSE
    /\ model_name = <<"small">>
    /\ language = "auto"
    /\ pc = "idle"
    /\ i = 1
    /\ audio_paths = <<>>
    /\ subtitles_path = <<>>
    /\ videoOnDisk = VideoPaths
    /\ wav = [s \in Stems |-> NoVideo]
    /\ srt = [t \in SrtPaths |-> NoFile]
    /\ state = AllPending
    /\ failure = NoFailure
    /\ extractCalls = Zero
    /\ transcribeCalls = Zero
    /\ muxChecks = Zero
    /\ muxCalls = Zero
    /\ diag = {}
    /\ reported = {}
    /\ run = 1
    /\ prevOutcome = "none"
    /\ srtAtStart = srt
    /\ envCount = 0
    /\ filters = << <<"default", "startup">> >>
    /\ fpc = "build"
    /\ os_name = "posix"
    /\ esc_path = <<>>
    /\ esc_result = NoResult
    /\ cmd_paths \in ArgPaths \X ArgPaths \X ArgPaths
    /\ command = <<>>
    /\ argv = NoWords

\* command = build_ffmpeg_command(path, subtitle_path, out_path)
BuildCommand ==
    /\ fpc = "build"
    /\ command' = build_ffmpeg_command(cmd_paths[1], cmd_paths[2], cmd_paths[3])
    /\ fpc' = "built"
    /\ UNCHANGED << os_name, esc_path, esc_result, cmd_paths, argv >>
    /\ UNCHANGED pipelineVars

\* subprocess.run(command, check=True, shell=True): the shell starts a
\* process with the words it read
ExecuteRuns ==
    /\ fpc = "built"
    /\ shell(command).ok
    /\ argv' = shell(command)
    /\ fpc' = "executed"
    /\ UNCHANGED << os_name, esc_path, esc_result, cmd_paths, command >>
    /\ UNCHANGED pipelineVars

\* the shell rejects the string; CalledProcessError is caught and printed
ExecuteShellError ==
    /\ fpc = "built"
    /\ ~shell(command).ok
    /\ argv' = shell(command)
    /\ fpc' = "executed"
    /\ UNCHANGED << os_name, esc_path, esc_result, cmd_paths, command >>
    /\ UNCHANGED pipelineVars

NextCommand ==
    \/ BuildCommand
    \/ ExecuteRuns
    \/ ExecuteShellError

SpecCommand == InitCommand /\ [][NextCommand]_vars

\* ------------------------------------------------------------- properties
Ended == pc \in {"done", "aborted"}
Distinct == Cardinality(Batch) = Len(video_pathes)
\* the input went through every stage the command line asks for
Done(p) == IF srt_only THEN state[p] = "CaptionWritten" /\ pc = "done"
           ELSE state[p] = "Muxed"

\* C1: when the run has ended and recognition failed for input A while no
\* stage failed for another input B of the batch, the result map has an
\* entry for B and none for A.
C1_RecognitionFailureNotFatal ==
    \A A \in Batch, B \in Batch :
        (Ended /\ A # B /\ failure[A] = "transcribe" /\ failure[B] = "none")
            => /\ B \in Keys(subtitles_path)
               /\ A \notin Keys(subtitles_path)

\* C2: when the run has ended and audio extraction failed for input A, every
\* other input of the batch with no failure of its own was extracted and
\* transcribed (and muxed when muxing is requested).
C2_ExtractionFailureNotFatal ==
    \A A \in Batch, B \in Batch :
        (Ended /\ A # B /\ failure[A] = "extract" /\ failure[B] = "none")
            => /\ extractCalls[B] >= 1
               /\ state[B] \in {"CaptionWritten", "Muxed"}
               /\ (~srt_only => state[B] = "Muxed")

\* C3: when the run has ended, every input of the batch is Done or Failed,
\* and an input none of whose stages failed is Done.
C3_EveryInputDoneOrFailed ==
    Ended => \A p \in Batch : failure[p] # "none" \/ Done(p)

\* a step of the loop of get_subtitles, resp. of the mux loop
SubtitlesStep == pc = "get_subtitles" /\ (pc' # pc \/ i' # i)
MuxStep == pc = "mux" /\ (pc' # pc \/ i' # i)
Persistent == output_srt \/ srt_only

\* C4: in every iteration of get_subtitles, if the caption file exists at the
\* target path then no recognition call is made, no caption file changes and
\* the input is recorded with that path; otherwise the recognition call is
\* made and, unless it or the write fails, the captions of the input's audio
\* file are at the target path and the input is recorded with it.
C4_CacheHitSkipsRecognition ==
    [][ SubtitlesStep =>
          LET path == audio_paths[i][1]
              audio_path == audio_paths[i][2]
              target == <<IF output_srt \/ srt_only THEN OutputDir ELSE TempDir,
                          path[2]>>
          IN IF srt[target].kind # "none"
             THEN /\ transcribeCalls' = transcribeCalls
                  /\ srt' = srt
                  /\ path \in Keys(subtitles_path')
                  /\ Value(subtitles_path', path) = target
             ELSE /\ transcribeCalls'[path] = transcribeCalls[path] + 1
                  /\ pc' # "aborted" =>
                        /\ srt'[target].kind = "full"
                        /\ srt'[target].src = wav[audio_path[2]]
                        /\ path \in Keys(subtitles_path')
                        /\ Value(subtitles_path', path) = target
      ]_vars

\* C4 witness: one run in which one input was a cache hit and another was
\* transcribed
C4_Witness ==
    \E p \in Keys(subtitles_path), q \in Keys(subtitles_path) :
        /\ transcribeCalls[p] = 0
        /\ srt[Value(subtitles_path, p)].kind = "full"
        /\ transcribeCalls[q] = 1
        /\ srt[Value(subtitles_path, q)].kind = "full"

\* C5: in an invocation that follows a completed one on the same command line
\* with a persistent caption file, and with no file removed from outside, no
\* recognition call is made and the caption files of the batch are what the
\* earlier invocation left, whatever the options of the two invocations.
C5_SecondRunIdempotent ==
    (run >= 2 /\ prevOutcome = "done" /\ Persistent /\ envCount = 0)
        => /\ \A p \in VideoPaths : transcribeCalls[p] = 0
           /\ \A t \in Targets : srt[t] = srtAtStart[t] /\ srt[t].kind # "none"

\* C5 witness: the second invocation completed with options that differ from
\* those a caption file of the batch was made with
C5_Witness ==
    /\ run = 2 /\ prevOutcome = "done" /\ Persistent /\ envCount = 0
    /\ pc = "done"
    /\ \E t \in Targets :
          /\ srt[t].kind = "full"
          /\ srt[t].lang # TranscribeLanguage(model_name, language)

\* C6: with caption-only output the mux loop is never entered: no existence
\* check and no mux command for any input; and the run that ends normally
\* has generated (or found) the caption of every input.
C6_SrtOnlyNeverMuxes ==
    srt_only =>
        /\ pc # "mux"
        /\ \A p \in VideoPaths : muxCalls[p] = 0 /\ muxChecks[p] = 0
        /\ pc = "done" => Batch \subseteq Keys(subtitles_path)

\* C6 witness: a caption-only run over two different inputs has finished,
\* having transcribed one of them
C6_Witness ==
    /\ srt_only /\ pc = "done"
    /\ Cardinality(Batch) >= 2
    /\ \E p \in Batch : transcribeCalls[p] = 1

\* C7: in every iteration of the mux loop, the mux command is run exactly when
\* the caption file and the video both exist at that moment; when one is
\* missing no command is run, the message is printed for that input and the
\* loop goes on to the next entry.
C7_MuxOnlyWhenBothExist ==
    [][ MuxStep =>
          LET path == subtitles_path[i][1]
              srt_path == subtitles_path[i][2]
          IN /\ muxChecks'[path] = muxChecks[path] + 1
             /\ IF srt[srt_path].kind # "none" /\ path \in videoOnDisk
                THEN /\ muxCalls'[path] = muxCalls[path] + 1
                     /\ path \notin diag'
                ELSE /\ muxCalls' = muxCalls
                     /\ path \in diag'
                     /\ pc' # "aborted"
                     /\ i < Len(subtitles_path) => pc' = "mux" /\ i' = i + 1
      ]_vars

\* C7 witness: the check failed for one input and a later input was muxed
C7_Witness ==
    \E p \in Keys(subtitles_path), q \in Keys(subtitles_path) :
        /\ p \in diag /\ muxCalls[p] = 0
        /\ Lookup(subtitles_path, p) < Lookup(subtitles_path, q)
        /\ muxCalls[q] = 1

\* C8: a failed mux command never ends the run: after it the run is still in
\* the mux loop or has finished it, and a run that finishes has checked every
\* entry of the result map and has run the mux command for every entry whose
\* check passed.
C8_MuxFailureNotFatal ==
    /\ reported # {} => pc \in {"mux", "done"}
    /\ (pc = "done" /\ ~srt_only) =>
          \A p \in Keys(subtitles_path) :
              /\ muxChecks[p] = 1
              /\ muxCalls[p] = 1 \/ p \in diag

\* C8 witness: the mux command failed for one input and was run for a later one
C8_Witness ==
    \E p \in Keys(subtitles_path), q \in Keys(subtitles_path) :
        /\ p \in reported
        /\ Lookup(subtitles_path, p) < Lookup(subtitles_path, q)
        /\ muxCalls[q] = 1 /\ state[q] = "Muxed"

\* C9: within one invocation the result map only grows at its end, an entry is added
\* only with a caption file present at its path, and no step of the mux loop
\* changes the map.
C9_ResultAppendOnly ==
    [][ run' = run =>
          /\ Len(subtitles_path') >= Len(subtitles_path)
          /\ \A j \in DOMAIN subtitles_path : subtitles_path'[j] = subtitles_path[j]
          /\ \A j \in DOMAIN subtitles_path' \ DOMAIN subtitles_path :
                /\ srt'[subtitles_path'[j][2]].kind # "none"
                /\ failure'[subtitles_path'[j][1]] = "none"
          /\ pc = "mux" => subtitles_path' = subtitles_path
      ]_vars

\* C9 witness: a run finished with a failed mux and a failed check, both
\* inputs still in the result map
C9_Witness ==
    /\ pc = "done"
    /\ \E p \in Keys(subtitles_path), q \in Keys(subtitles_path) :
          failure[p] = "mux" /\ failure[q] = "check"

\* C10: for a batch of distinct video paths, once get_subtitles has returned,
\* no two inputs are mapped to the same caption file and the keys of the
\* result map are the inputs in the order given.
C10_OneToOneInOrder ==
    (Distinct /\ pc \in {"mux", "done"}) =>
        /\ \A j \in DOMAIN subtitles_path, k \in DOMAIN subtitles_path :
              j # k => subtitles_path[j][2] # subtitles_path[k][2]
        /\ [j \in DOMAIN subtitles_path |-> subtitles_path[j][1]] = video_pathes

\* C11: between two steps of the run (so outside the recognition call) the
\* warning behaviour in force is the one the interpreter started with.
C11_WarningsRestored == InForce = AtStartup

\* C12: for a batch of distinct inputs, once extraction is over, the audio
\* file recorded for an input holds the audio of that input, and no two
\* inputs have the same audio file.
C12_AudioFromOwnInput ==
    (Distinct /\ pc \in {"get_subtitles", "mux", "done"}) =>
        /\ \A j \in DOMAIN audio_paths :
              wav[audio_paths[j][2][2]] = audio_paths[j][1]
        /\ \A j \in DOMAIN audio_paths, k \in DOMAIN audio_paths :
              j # k => audio_paths[j][2] # audio_paths[k][2]

\* the stage changes one input may go through
StageOrder ==
    { <<"Pending", "AudioExtracted">>, <<"AudioExtracted", "AudioExtracted">>,
      <<"AudioExtracted", "CaptionWritten">>, <<"CaptionWritten", "Muxed">>,
      <<"Pending", "Failed">>, <<"AudioExtracted", "Failed">>,
      <<"CaptionWritten", "Failed">> }

\* C13: within one run, for every input: a recognition call or a new result
\* entry comes only after its extraction, an entry only with its caption file
\* present, a mux check or command only after its entry; its stage only moves
\* forward; and once a stage failed for it, no recognition call, entry, check
\* or mux command follows for it.
C13_StageOrder ==
    [][ run' = run =>
          \A p \in VideoPaths :
            /\ state'[p] # state[p] => <<state[p], state'[p]>> \in StageOrder
            /\ transcribeCalls'[p] > transcribeCalls[p] =>
                  extractCalls[p] >= 1 /\ p \in Keys(audio_paths)
            /\ (p \in Keys(subtitles_path') /\ p \notin Keys(subtitles_path)) =>
                  /\ extractCalls[p] >= 1
                  /\ srt'[Value(subtitles_path', p)].kind # "none"
            /\ muxChecks'[p] > muxChecks[p] => p \in Keys(subtitles_path)
            /\ muxCalls'[p] > muxCalls[p] =>
                  p \in Keys(subtitles_path) /\ muxChecks'[p] > muxChecks[p]
            /\ failure[p] # "none" =>
                  /\ failure'[p] = failure[p]
                  /\ transcribeCalls'[p] = transcribeCalls[p]
                  /\ muxChecks'[p] = muxChecks[p]
                  /\ muxCalls'[p] = muxCalls[p]
                  /\ p \in Keys(subtitles_path') => p \in Keys(subtitles_path)
      ]_vars

\* C13 witness: one input went through every stage and another one failed
\* its check before the mux
C13_Witness ==
    \E p \in Batch, q \in Batch :
        /\ state[p] = "Muxed" /\ extractCalls[p] >= 1
        /\ transcribeCalls[p] = 1 /\ muxCalls[p] = 1
        /\ failure[q] = "check" /\ muxCalls[q] = 0

\* C16: every entry of the result map records <output directory>/<stem> when
\* --output_srt or --srt_only is set and <temp directory>/<stem> otherwise;
\* an iteration of get_subtitles changes no caption file but that one, and
\* the mux loop tests the recorded path (it changes no caption file).
C16_TargetCaptionPath ==
    [][ /\ \A j \in DOMAIN subtitles_path' :
              subtitles_path'[j][2] =
                  << IF output_srt \/ srt_only THEN "out" ELSE "tmp",
                     subtitles_path'[j][1][2] >>
        /\ SubtitlesStep =>
              \A t \in SrtPaths :
                  srt'[t] # srt[t] =>
                      t = << IF output_srt \/ srt_only THEN "out" ELSE "tmp",
                             audio_paths[i][1][2] >>
        /\ MuxStep =>
              /\ srt' = srt
              /\ (muxCalls' # muxCalls) => srt[subtitles_path[i][2]].kind # "none"
      ]_vars

\* C16 witness: a run without a persistent caption file wrote the captions
\* in the temp directory and muxed them
C16_Witness ==
    /\ ~output_srt /\ ~srt_only
    /\ \E p \in Batch :
          /\ state[p] = "Muxed" /\ transcribeCalls[p] = 1
          /\ srt[<<"tmp", p[2]>>].kind = "full"
          /\ srt[<<"out", p[2]>>].kind = "none"

\* C17: within a run --model and --language do not change, and every caption
\* file the run writes is made with language "en" when the model name ends in
\* ".en", else with the caller's language when that is not "auto", else with
\* no language.
C17_OptionsFixed ==
    [][ /\ run' = run => model_name' = model_name /\ language' = language
        /\ \A t \in SrtPaths :
              (srt'[t] # srt[t] /\ srt'[t].kind # "none") =>
                  srt'[t].lang =
                      IF model_name[Len(model_name)] = ".en" THEN "en"
                      ELSE IF language # "auto" THEN language
                      ELSE "unset"
      ]_vars

\* C17 witness: an English-only model with --language fr wrote a caption
\* file with "en", and another file of the same run has the same language
C17_Witness ==
    /\ model_name = <<"small", ".en">> /\ language = "fr"
    /\ \E p \in Batch, q \in Batch :
          /\ p # q /\ transcribeCalls[p] = 1 /\ transcribeCalls[q] = 1
          /\ srt[SrtPath(p, Persistent)].lang = "en"
          /\ srt[SrtPath(q, Persistent)].lang = "en"
          /\ SrtPath(p, Persistent) # SrtPath(q, Persistent)

\* the number of calls counted in f, over all inputs
RECURSIVE Total(_, _)
Total(f, S) ==
    IF S = {} THEN 0
    ELSE LET p == CHOOSE q \in S : TRUE IN f[p] + Total(f, S \ {p})

\* C18: while get_audio runs there has been no recognition call and no result
\* entry in this run; every step of get_subtitles finds the whole batch
\* extracted; every step of the mux loop, and every mux check or command made
\* so far, finds a result entry for the whole batch.
C18_PhasedAcrossBatch ==
    /\ pc = "get_audio" =>
          /\ subtitles_path = <<>>
          /\ \A p \in VideoPaths :
                transcribeCalls[p] = 0 /\ muxChecks[p] = 0 /\ muxCalls[p] = 0
    /\ (pc = "get_subtitles" \/ subtitles_path # <<>>
          \/ \E p \in VideoPaths : transcribeCalls[p] > 0) =>
          /\ Keys(audio_paths) = Batch
          /\ Total(extractCalls, VideoPaths) = Len(video_pathes)
    /\ (pc = "mux" \/ \E p \in VideoPaths : muxChecks[p] > 0 \/ muxCalls[p] > 0) =>
          Keys(subtitles_path) = Batch

\* C18 witness: in a batch of two inputs the first was muxed while the second
\* still waits for its mux, both captions written
C18_Witness ==
    /\ pc = "mux" /\ i = 2 /\ Cardinality(Batch) = 2
    /\ \A p \in Batch : transcribeCalls[p] = 1 /\ extractCalls[p] = 1
    /\ muxCalls[subtitles_path[1][1]] = 1
    /\ muxCalls[subtitles_path[2][1]] = 0

\* C19: the caption file recorded for an input is never a partly written one.
C19_ReusedFileIsComplete ==
    \A j \in DOMAIN subtitles_path : srt[subtitles_path[j][2]].kind # "partial"

\* C20: every input in the result map was extracted in this run, also when
\* its caption file was found and not made; and once get_audio has returned
\* the number of extraction calls is the number of inputs.
C20_ExtractionForEveryInput ==
    /\ \A p \in Keys(subtitles_path) : extractCalls[p] >= 1
    /\ pc \in {"get_subtitles", "mux", "done"} =>
          /\ Total(extractCalls, VideoPaths) = Len(video_pathes)
          /\ \A p \in Batch :
                extractCalls[p] =
                    Cardinality({ j \in DOMAIN video_pathes : video_pathes[j] = p })

\* C20 witness: a finished run in which every input was a cache hit and was
\* extracted all the same
C20_Witness ==
    /\ pc = "done" /\ Len(video_pathes) >= 2
    /\ \A p \in Batch :
          /\ transcribeCalls[p] = 0
          /\ p \in Keys(subtitles_path)
          /\ extractCalls[p] >= 1

\* ---- reading a token back, as the filter-graph parser does
\* the surrounding quotes taken off; "?" where there are none
Unquote(s) ==
    IF Len(s) >= 2 /\ s[1] = "'" /\ s[Len(s)] = "'"
    THEN SubSeq(s, 2, Len(s) - 1)
    ELSE <<"?">>

\* a backslash stands for the character after it
RECURSIVE Unescape(_)
Unescape(s) ==
    IF s = <<>> THEN <<>>
    ELSE IF Head(s) = "\\"
         THEN (IF Len(s) >= 2 THEN <<s[2]>> \o Unescape(SubSeq(s, 3, Len(s)))
               ELSE <<"?">>)
         ELSE <<Head(s)>> \o Unescape(Tail(s))

ReadBack(s) == Unescape(Unquote(Unescape(Unquote(s))))

ForwardSlashed(s) ==
    [j \in DOMAIN s |-> IF s[j] = "\\" THEN "/" ELSE s[j]]

RoundTrips ==
    /\ ~esc_result.raised
    /\ Len(esc_result.token) >= 2
    /\ ReadBack(esc_result.token) = ForwardSlashed(esc_path)

\* C14 as stated: for every path (colons, backslashes, spaces, quotes, the
\* empty path included) the escaper returns a token, not an error, and
\* undoing layer 2 and then layer 1 gives the path back with its
\* backslashes turned into forward slashes.
C14_EscapeRoundTrip ==
    fpc = "escaped" => RoundTrips

\* what the code does give: the round trip on a host whose os.name is
\* "nt", and an exception without a token for every path on any other host
EscapeRoundTripOnNt ==
    fpc = "escaped" =>
        IF os_name = "nt" THEN RoundTrips
        ELSE esc_result.raised /\ esc_result.token = <<>>

\* a path with a drive colon and a backslash was escaped on "nt"
EscapedOnNt ==
    /\ fpc = "escaped"
    /\ os_name = "nt"
    /\ esc_path = << ":", "\\" >>
    /\ ~esc_result.raised
    /\ esc_result.token = << "'", "\\", "'", "\\", "\\", ":", "/", "\\", "'", "'" >>

\* the argument vector the mux is meant to run with
MuxArguments ==
    << <<"ffmpeg">>, <<"-i">>, cmd_paths[1], <<"-i">>, cmd_paths[2],
       <<"-c:v">>, <<"copy">>, <<"-c:a">>, <<"copy">>,
       <<"-c:s">>, <<"mov_text">>, <<"-y">>, cmd_paths[3] >>

\* C15: for every video, caption and output path (spaces and double quotes
\* included) the process is started with an argument vector in which each
\* path is, verbatim, exactly one argument: nothing re-reads the command as
\* a shell string.
C15_PathsAreSingleArguments ==
    fpc = "executed" => argv.ok /\ argv.words = MuxArguments

====
